---- MODULE Spec2Model ----
(***************************************************************************)
(* Model of Profiler.py: the TraceNode call-tree node, the LogProfiler     *)
(* stack-reconstruction engine (_check_events, _close_dangling_events)     *)
(* and the program's entry point (process_file, __main__).                 *)
(*                                                                         *)
(* Nodes live in an arena (the sequence `nodes`, in creation order); a     *)
(* node is referred to by its index.  An optional value (Python None or a  *)
(* value) is the empty or the one-element sequence.  Instants are          *)
(* milliseconds since the first line of the log; a datetime is always      *)
(* truthy in Python, so `not end_time` is exactly `end_time is None`.      *)
(* A regular expression is opaque: a message is the pair of the sets of    *)
(* definitions whose start_re and whose end_re find a match in it.         *)
(***************************************************************************)
EXTENDS Integers, Sequences, FiniteSets, TLC

\* ------------------------------------------------------------------ bounds
MaxNodes == 2          \* start signals accepted in one run
MaxLines == 2          \* lines of the log file read by process_file

Tids     == {1, 2}                 \* thread identifiers seen in the log
Instants == {0, 1, 5, 10}          \* timestamps seen in the log (ms)

\* ----------------------------------------------------------- configuration
None    == << >>
Some(x) == << x >>

\* config['events']: A is configured with threshold_ms 4, B with none.
config_events == << [name |-> "A", threshold_ms |-> Some(4)],
                    [name |-> "B", threshold_ms |-> None] >>

\* self.event_defs after LogProfiler.__init__: the ordered definitions, with
\* evt.get('threshold_ms', 0) as threshold.
event_defs ==
    [i \in DOMAIN config_events |->
        [name |-> config_events[i].name,
         threshold |-> IF config_events[i].threshold_ms = None THEN 0
                       ELSE config_events[i].threshold_ms[1]]]
DefIds     == 1..Len(event_defs)
FirstOf(S) == CHOOSE d \in S : \A e \in S : d <= e

\* A message, as the regular expressions see it.
Messages == [s : SUBSET DefIds, e : SUBSET DefIds]
start_re(d, message) == d \in message.s
end_re(d, message)   == d \in message.e

\* A line of the log file: one the header pattern rejects, or a decoded one.
Garbage == [header |-> FALSE]
Lines   == {Garbage} \cup
           [header : {TRUE}, tid : Tids, time : Instants,
            message : {m \in Messages : Cardinality(m.s) + Cardinality(m.e) <= 1}]

\* The log files of at most n lines.
RECURSIVE Files(_)
Files(n) ==
    IF n = 0 THEN {<< >>}
    ELSE Files(n - 1) \cup
         {Append(f, l) : f \in {g \in Files(n - 1) : Len(g) = n - 1}, l \in Lines}

VARIABLES
    nodes,            \* arena of TraceNode objects, by creation order
    thread_stacks,    \* LogProfiler.thread_stacks: tid -> stack of node ids
    thread_keys,      \* insertion order of the keys of thread_stacks
    completed_roots,  \* LogProfiler.completed_roots (the Forest)
    pc,               \* position of the program (__main__), "api" for a caller of the engine
    file,             \* lines of the log file not yet read
    calls,            \* methods __main__ has invoked so far, in order
    clock,            \* instant of the last signal the engine took
    closer,           \* history: per node, what set its end ("", "end", "forced")
    last,             \* history: the last signal delivered or finalize call made
    pre,              \* history: the engine before that signal or call
    input             \* history: nesting of the signals delivered so far

engine == << nodes, thread_stacks, thread_keys, completed_roots >>
vars   == << nodes, thread_stacks, thread_keys, completed_roots,
             pc, file, calls, clock, closer, last, pre, input >>

\* ---------------------------------------------------------------- TraceNode
TraceNode(name, start_time, thread_id) ==
    [name |-> name, start_time |-> start_time, end_time |-> None,
     thread_id |-> thread_id, children |-> << >>, parent |-> None]

close(node, end_time) == [node EXCEPT !.end_time = Some(end_time)]

duration_ms(node) ==
    IF node.end_time = None THEN 0
    ELSE node.end_time[1] - node.start_time

RECURSIVE SumDurations(_, _)
SumDurations(arena, ids) ==
    IF ids = << >> THEN 0
    ELSE duration_ms(arena[Head(ids)]) + SumDurations(arena, Tail(ids))

Max(a, b) == IF a >= b THEN a ELSE b

\* self_time_ms without the max(0, ...) of line 31.
self_time_ms_Unclamped(arena, id) ==
    duration_ms(arena[id]) - SumDurations(arena, arena[id].children)

self_time_ms(arena, id) ==
    LET child_duration == SumDurations(arena, arena[id].children)
    IN  Max(0, duration_ms(arena[id]) - child_duration)

\* --------------------------------------------------- to_chrome_trace_events
\* Offset, in microseconds, of the end record of a node whose end is unset.
OpenEndOffset == 100

\* Instants are milliseconds, trace timestamps microseconds.
Micros(instant) == instant * 1000

\* Event whose end record, for a node whose end is unset, carries the start.
Event_NoOffset(node, ph, pid) ==
    [name |-> node.name, cat |-> "PERF", ph |-> ph,
     ts |-> IF ph = "B" THEN Micros(node.start_time)
            ELSE IF node.end_time # None THEN Micros(node.end_time[1])
            ELSE Micros(node.start_time),
     pid |-> pid, tid |-> node.thread_id]

\* The dict appended at lines 37-44 (ph "B") and at lines 51-59 (ph "E").
Event(node, ph, pid) ==
    [name |-> node.name, cat |-> "PERF", ph |-> ph,
     ts |-> IF ph = "B" THEN Micros(node.start_time)
            ELSE IF node.end_time # None THEN Micros(node.end_time[1])
            ELSE Micros(node.start_time) + OpenEndOffset,
     pid |-> pid, tid |-> node.thread_id]

\* Emit that appends the end record before the children's records.
RECURSIVE Emit_EndBeforeChildren(_, _)
Emit_EndBeforeChildren(arena, id) ==
    LET RECURSIVE Each(_)
        Each(ids) == IF ids = << >> THEN << >>
                     ELSE Emit_EndBeforeChildren(arena, Head(ids)) \o Each(Tail(ids))
    IN  << [ph |-> "B", node |-> id], [ph |-> "E", node |-> id] >>
        \o Each(arena[id].children)

\* The order in which to_chrome_trace_events appends records for the tree of
\* node id: the node's begin, its children's records in order, its end.
RECURSIVE Emit(_, _)
Emit(arena, id) ==
    LET RECURSIVE Each(_)
        Each(ids) == IF ids = << >> THEN << >>
                     ELSE Emit(arena, Head(ids)) \o Each(Tail(ids))
    IN  << [ph |-> "B", node |-> id] >>
        \o Each(arena[id].children)
        \o << [ph |-> "E", node |-> id] >>

to_chrome_trace_events(arena, id, pid) ==
    LET order == Emit(arena, id)
    IN  [k \in DOMAIN order |-> Event(arena[order[k].node], order[k].ph, pid)]

\* ------------------------------------------------------------- _check_events
\* Two passes over event_defs: every start_re first, the end_re after.
Scan_StartsFirst(i, message) ==
    IF \E d \in i..Len(event_defs) : start_re(d, message)
    THEN [kind |-> "start",
          def |-> CHOOSE d \in i..Len(event_defs) :
                     /\ start_re(d, message)
                     /\ \A e \in i..(d - 1) : ~start_re(e, message)]
    ELSE IF \E d \in i..Len(event_defs) : end_re(d, message)
    THEN [kind |-> "end",
          def |-> CHOOSE d \in i..Len(event_defs) :
                     /\ end_re(d, message)
                     /\ \A e \in i..(d - 1) : ~end_re(e, message)]
    ELSE [kind |-> "none", def |-> 0]

\* The loop over event_defs: the first definition, in configured order, one
\* of whose two expressions matches; its start expression is tried first.
RECURSIVE Scan(_, _)
Scan(i, message) ==
    IF i > Len(event_defs) THEN [kind |-> "none", def |-> 0]
    ELSE IF start_re(i, message) THEN [kind |-> "start", def |-> i]
    ELSE IF end_re(i, message) THEN [kind |-> "end", def |-> i]
    ELSE Scan(i + 1, message)

StackOf(stacks, tid) == IF tid \in DOMAIN stacks THEN stacks[tid] ELSE << >>
Top(stack) == stack[Len(stack)]
Pop(stack) == SubSeq(stack, 1, Len(stack) - 1)

\* OnStart with one stack for all threads: that of the first thread seen.
OnStart_OneStack(d, tid, timestamp) ==
    LET id       == Len(nodes) + 1
        new_node == TraceNode(event_defs[d].name, timestamp, tid)
        key      == IF thread_keys # << >> THEN thread_keys[1] ELSE tid
        stack    == StackOf(thread_stacks, key)
    IN  /\ nodes' =
              IF stack # << >>
              THEN Append([nodes EXCEPT ![Top(stack)].children = Append(@, id)],
                          [new_node EXCEPT !.parent = Some(Top(stack))])
              ELSE Append(nodes, new_node)
        /\ thread_stacks' =
              [t \in DOMAIN thread_stacks \cup {key} |->
                  IF t = key THEN Append(stack, id) ELSE thread_stacks[t]]
        /\ thread_keys' =
              IF key \in DOMAIN thread_stacks THEN thread_keys
              ELSE Append(thread_keys, key)
        /\ UNCHANGED completed_roots

\* OnStart without line 130: the parent gets the child, the child no parent.
OnStart_NoParent(d, tid, timestamp) ==
    LET id       == Len(nodes) + 1
        new_node == TraceNode(event_defs[d].name, timestamp, tid)
        stack    == StackOf(thread_stacks, tid)
    IN  /\ nodes' =
              IF stack # << >>
              THEN Append([nodes EXCEPT ![Top(stack)].children = Append(@, id)],
                          new_node)
              ELSE Append(nodes, new_node)
        /\ thread_stacks' =
              [t \in DOMAIN thread_stacks \cup {tid} |->
                  IF t = tid THEN Append(stack, id) ELSE thread_stacks[t]]
        /\ thread_keys' =
              IF tid \in DOMAIN thread_stacks THEN thread_keys
              ELSE Append(thread_keys, tid)
        /\ UNCHANGED completed_roots

\* OnStart without line 129: the node is pushed and told its parent, but the
\* parent's children do not get it.
OnStart_NoLink(d, tid, timestamp) ==
    LET id       == Len(nodes) + 1
        new_node == TraceNode(event_defs[d].name, timestamp, tid)
        stack    == StackOf(thread_stacks, tid)
    IN  /\ nodes' =
              IF stack # << >>
              THEN Append(nodes, [new_node EXCEPT !.parent = Some(Top(stack))])
              ELSE Append(nodes, new_node)
        /\ thread_stacks' =
              [t \in DOMAIN thread_stacks \cup {tid} |->
                  IF t = tid THEN Append(stack, id) ELSE thread_stacks[t]]
        /\ thread_keys' =
              IF tid \in DOMAIN thread_stacks THEN thread_keys
              ELSE Append(thread_keys, tid)
        /\ UNCHANGED completed_roots

\* OnStart with lines 129-130 the wrong way round: the top of the stack
\* becomes the child of the new node.
OnStart_Reversed(d, tid, timestamp) ==
    LET id       == Len(nodes) + 1
        new_node == TraceNode(event_defs[d].name, timestamp, tid)
        stack    == StackOf(thread_stacks, tid)
    IN  /\ nodes' =
              IF stack # << >>
              THEN Append([nodes EXCEPT ![Top(stack)].parent = Some(id)],
                          [new_node EXCEPT !.children = << Top(stack) >>])
              ELSE Append(nodes, new_node)
        /\ thread_stacks' =
              [t \in DOMAIN thread_stacks \cup {tid} |->
                  IF t = tid THEN Append(stack, id) ELSE thread_stacks[t]]
        /\ thread_keys' =
              IF tid \in DOMAIN thread_stacks THEN thread_keys
              ELSE Append(thread_keys, tid)
        /\ UNCHANGED completed_roots

\* OnStart that drops a start whose name is already open on the thread.
OnStart_NoReentry(d, tid, timestamp) ==
    LET id       == Len(nodes) + 1
        new_node == TraceNode(event_defs[d].name, timestamp, tid)
        stack    == StackOf(thread_stacks, tid)
    IN  IF \E k \in DOMAIN stack : nodes[stack[k]].name = event_defs[d].name
        THEN UNCHANGED engine
        ELSE /\ nodes' =
                   IF stack # << >>
                   THEN Append([nodes EXCEPT ![Top(stack)].children = Append(@, id)],
                               [new_node EXCEPT !.parent = Some(Top(stack))])
                   ELSE Append(nodes, new_node)
             /\ thread_stacks' =
                   [t \in DOMAIN thread_stacks \cup {tid} |->
                       IF t = tid THEN Append(stack, id) ELSE thread_stacks[t]]
             /\ thread_keys' =
                   IF tid \in DOMAIN thread_stacks THEN thread_keys
                   ELSE Append(thread_keys, tid)
             /\ UNCHANGED completed_roots

\* Lines 119-133: the branch taken when definition d's start_re matches.
OnStart(d, tid, timestamp) ==
    LET id       == Len(nodes) + 1
        new_node == TraceNode(event_defs[d].name, timestamp, tid)
        stack    == StackOf(thread_stacks, tid)
    IN  /\ nodes' =
              IF stack # << >>
              THEN Append([nodes EXCEPT ![Top(stack)].children = Append(@, id)],
                          [new_node EXCEPT !.parent = Some(Top(stack))])
              ELSE Append(nodes, new_node)
        /\ thread_stacks' =
              [t \in DOMAIN thread_stacks \cup {tid} |->
                  IF t = tid THEN Append(stack, id) ELSE thread_stacks[t]]
        /\ thread_keys' =
              IF tid \in DOMAIN thread_stacks THEN thread_keys
              ELSE Append(thread_keys, tid)
        /\ UNCHANGED completed_roots

\* OnEnd without the close of line 144: the node is popped with no end.
OnEnd_NoClose(d, tid, timestamp) ==
    IF tid \in DOMAIN thread_stacks /\ thread_stacks[tid] # << >>
    THEN LET stack == thread_stacks[tid]
             node  == Top(stack)
         IN  IF nodes[node].name = event_defs[d].name
             THEN /\ thread_stacks' = [thread_stacks EXCEPT ![tid] = Pop(stack)]
                  /\ completed_roots' =
                        IF Pop(stack) = << >>
                        THEN Append(completed_roots, node)
                        ELSE completed_roots
                  /\ UNCHANGED << nodes, thread_keys >>
             ELSE UNCHANGED engine
    ELSE UNCHANGED engine

\* OnEnd without the pop of line 145: the closed node stays on its stack.
OnEnd_NoPop(d, tid, timestamp) ==
    IF tid \in DOMAIN thread_stacks /\ thread_stacks[tid] # << >>
    THEN LET stack == thread_stacks[tid]
             node  == Top(stack)
         IN  IF nodes[node].name = event_defs[d].name
             THEN /\ nodes' = [nodes EXCEPT ![node] = close(@, timestamp)]
                  /\ UNCHANGED << thread_stacks, thread_keys, completed_roots >>
             ELSE UNCHANGED engine
    ELSE UNCHANGED engine

\* OnEnd with the append of line 149 outside the test of line 148: every
\* closed node goes to the Forest.
OnEnd_AlwaysRoot(d, tid, timestamp) ==
    IF tid \in DOMAIN thread_stacks /\ thread_stacks[tid] # << >>
    THEN LET stack == thread_stacks[tid]
             node  == Top(stack)
         IN  IF nodes[node].name = event_defs[d].name
             THEN /\ nodes' = [nodes EXCEPT ![node] = close(@, timestamp)]
                  /\ thread_stacks' = [thread_stacks EXCEPT ![tid] = Pop(stack)]
                  /\ completed_roots' = Append(completed_roots, node)
                  /\ UNCHANGED thread_keys
             ELSE UNCHANGED engine
    ELSE UNCHANGED engine

\* OnEnd without the name test of line 143: the top frame is closed whatever
\* its name.
OnEnd_AnyTop(d, tid, timestamp) ==
    IF tid \in DOMAIN thread_stacks /\ thread_stacks[tid] # << >>
    THEN LET stack == thread_stacks[tid]
             node  == Top(stack)
         IN  /\ nodes' = [nodes EXCEPT ![node] = close(@, timestamp)]
             /\ thread_stacks' = [thread_stacks EXCEPT ![tid] = Pop(stack)]
             /\ completed_roots' =
                   IF Pop(stack) = << >>
                   THEN Append(completed_roots, node)
                   ELSE completed_roots
             /\ UNCHANGED thread_keys
    ELSE UNCHANGED engine

\* Lines 136-150: the branch taken when definition d's end_re matches.
OnEnd(d, tid, timestamp) ==
    IF tid \in DOMAIN thread_stacks /\ thread_stacks[tid] # << >>
    THEN LET stack == thread_stacks[tid]
             node  == Top(stack)
         IN  IF nodes[node].name = event_defs[d].name
             THEN /\ nodes' = [nodes EXCEPT ![node] = close(@, timestamp)]
                  /\ thread_stacks' = [thread_stacks EXCEPT ![tid] = Pop(stack)]
                  /\ completed_roots' =
                        IF Pop(stack) = << >>
                        THEN Append(completed_roots, node)
                        ELSE completed_roots
                  /\ UNCHANGED thread_keys
             ELSE UNCHANGED engine
    ELSE UNCHANGED engine

_check_events(tid, timestamp, message) ==
    LET hit == Scan(1, message)
    IN  CASE hit.kind = "start" -> OnStart(hit.def, tid, timestamp)
          [] hit.kind = "end"   -> OnEnd(hit.def, tid, timestamp)
          [] OTHER              -> UNCHANGED engine

\* --------------------------------------------------- _close_dangling_events
\* Drain with the append of line 161 outside the test of line 160.
RECURSIVE Drain_EveryNode(_, _, _)
Drain_EveryNode(arena, roots, stack) ==
    IF stack = << >> THEN [arena |-> arena, roots |-> roots]
    ELSE LET node   == Top(stack)
             arena2 == IF arena[node].end_time = None
                       THEN [arena EXCEPT ![node] = close(@, @.start_time)]
                       ELSE arena
         IN  Drain_EveryNode(arena2, Append(roots, node), Pop(stack))

\* Drain that takes the first node popped, the top, for the root.
Drain_TopAsRoot(arena, roots, stack) ==
    IF stack = << >> THEN [arena |-> arena, roots |-> roots]
    ELSE LET closed == [i \in DOMAIN arena |->
                           IF i \in {stack[k] : k \in DOMAIN stack}
                              /\ arena[i].end_time = None
                           THEN close(arena[i], arena[i].start_time)
                           ELSE arena[i]]
         IN  [arena |-> closed, roots |-> Append(roots, Top(stack))]

\* Drain that puts a root at the front of the Forest (insert(0, node)).
RECURSIVE Drain_Prepend(_, _, _)
Drain_Prepend(arena, roots, stack) ==
    IF stack = << >> THEN [arena |-> arena, roots |-> roots]
    ELSE LET node   == Top(stack)
             rest   == Pop(stack)
             arena2 == IF arena[node].end_time = None
                       THEN [arena EXCEPT ![node] = close(@, @.start_time)]
                       ELSE arena
             roots2 == IF rest = << >> THEN << node >> \o roots ELSE roots
         IN  Drain_Prepend(arena2, roots2, rest)

\* The while loop over one stack: returns the arena and the Forest after it.
RECURSIVE Drain(_, _, _)
Drain(arena, roots, stack) ==
    IF stack = << >> THEN [arena |-> arena, roots |-> roots]
    ELSE LET node   == Top(stack)
             rest   == Pop(stack)
             arena2 == IF arena[node].end_time = None
                       THEN [arena EXCEPT ![node] = close(@, @.start_time)]
                       ELSE arena
             roots2 == IF rest = << >> THEN Append(roots, node) ELSE roots
         IN  Drain(arena2, roots2, rest)

\* The for loop over thread_stacks.items(), in the dict's insertion order.
RECURSIVE DrainAll(_, _, _)
DrainAll(keys, arena, roots) ==
    IF keys = << >> THEN [arena |-> arena, roots |-> roots]
    ELSE LET r == Drain(arena, roots, thread_stacks[Head(keys)])
         IN  DrainAll(Tail(keys), r.arena, r.roots)

\* _close_dangling_events reading the stacks without popping them.
_close_dangling_events_NoPop ==
    LET r == DrainAll(thread_keys, nodes, completed_roots)
    IN  /\ nodes' = r.arena
        /\ completed_roots' = r.roots
        /\ UNCHANGED << thread_stacks, thread_keys >>

_close_dangling_events ==
    LET r == DrainAll(thread_keys, nodes, completed_roots)
    IN  /\ nodes' = r.arena
        /\ completed_roots' = r.roots
        /\ thread_stacks' = [t \in DOMAIN thread_stacks |-> << >>]
        /\ UNCHANGED thread_keys

\* -------------------------------------------------------- print_text_report
\* Line 176: the threshold of the first definition that has the node's name,
\* 0 if none has.
Threshold(name) ==
    IF \E d \in DefIds : event_defs[d].name = name
    THEN event_defs[FirstOf({d \in DefIds : event_defs[d].name = name})].threshold
    ELSE 0

\* Line 177.
status_icon(node) ==
    IF duration_ms(node) > Threshold(node.name) THEN "warn" ELSE "ok"

\* The lines _print_node_recursive prints for node id and the nodes below.
RECURSIVE _print_node_recursive(_, _, _)
_print_node_recursive(arena, id, level) ==
    LET RECURSIVE Each(_)
        Each(ids) == IF ids = << >> THEN << >>
                     ELSE _print_node_recursive(arena, Head(ids), level + 1)
                          \o Each(Tail(ids))
    IN  << [level |-> level, status_icon |-> status_icon(arena[id]),
            name |-> arena[id].name, total |-> duration_ms(arena[id]),
            self |-> self_time_ms(arena, id), thread |-> arena[id].thread_id] >>
        \o Each(arena[id].children)

RECURSIVE ReportOf(_, _)
ReportOf(arena, roots) ==
    IF roots = << >> THEN << >>
    ELSE _print_node_recursive(arena, Head(roots), 0) \o ReportOf(arena, Tail(roots))

print_text_report == ReportOf(nodes, completed_roots)

\* ------------------------------------------------------ export_chrome_trace
\* Lines 186-188: the records of every root of the Forest, in Forest order,
\* and the nodes they come from.
RECURSIVE EmitRoots(_, _)
EmitRoots(arena, roots) ==
    IF roots = << >> THEN << >>
    ELSE Emit(arena, Head(roots)) \o EmitRoots(arena, Tail(roots))

RECURSIVE TraceOf(_, _)
TraceOf(arena, roots) ==
    IF roots = << >> THEN << >>
    ELSE to_chrome_trace_events(arena, Head(roots), 1) \o TraceOf(arena, Tail(roots))

export_chrome_trace == TraceOf(nodes, completed_roots)

\* ------------------------------------------------------------------ history
\* What set each node's end in this step, derived from the step itself.
Closers(how) ==
    [i \in DOMAIN nodes' |->
        IF i \in DOMAIN nodes
        THEN IF nodes[i].end_time = None /\ nodes'[i].end_time # None
             THEN how ELSE closer[i]
        ELSE IF nodes'[i].end_time # None THEN how ELSE ""]

NoSignal   == [kind |-> "none", def |-> 0]

\* The signal a message carries: that of the first definition, in configured
\* order, either of whose predicates matches it, and that definition's start
\* signal if its start predicate matches.
FirstDefinition(message) ==
    IF message.s \cup message.e = {} THEN NoSignal
    ELSE LET d == FirstOf(message.s \cup message.e)
         IN  [kind |-> IF d \in message.s THEN "start" ELSE "end", def |-> d]

\* An end signal for definition d on thread tid finds no frame to close.
Mismatch(tid, d) ==
    \/ tid \notin DOMAIN thread_stacks
    \/ thread_stacks[tid] = << >>
    \/ nodes[Top(thread_stacks[tid])].name # event_defs[d].name

\* A frame below the top of tid's stack carries definition d's name.
DeeperFrame(tid, d) ==
    /\ tid \in DOMAIN thread_stacks
    /\ \E k \in 1..(Len(thread_stacks[tid]) - 1) :
          nodes[thread_stacks[tid][k]].name = event_defs[d].name

\* `last` is the last signal delivered or finalize call made, `pre` the
\* engine as that call found it.  op: "start"; "end" (an end signal the top
\* frame answers); "discarded" (an end signal that finds no frame to close:
\* its thread and definition are not kept, deeper tells whether a frame
\* below the top carried the name); "finalize".  at: the signal's instant.
\* preempt: on an end signal, the first definition whose start predicate
\* matched the same message (0 if none did).  again: a finalize call made
\* right after a finalize call that closed dangling nodes.  A line that carries no signal leaves both
\* records as they are.
NoCall == [op |-> "init", tid |-> 0, def |-> 0, at |-> 0, deeper |-> FALSE,
           preempt |-> 0, again |-> FALSE]

Describe(tid, timestamp, message) ==
    LET sig == FirstDefinition(message)
    IN  CASE sig.kind = "none"  -> last
          [] sig.kind = "start" ->
                [op |-> "start", tid |-> tid, def |-> sig.def, at |-> timestamp,
                 deeper |-> FALSE, preempt |-> 0, again |-> FALSE]
          [] sig.kind = "end" /\ ~Mismatch(tid, sig.def) ->
                [op |-> "end", tid |-> tid, def |-> sig.def, at |-> timestamp,
                 deeper |-> FALSE,
                 preempt |-> IF message.s = {} THEN 0 ELSE FirstOf(message.s),
                 again |-> FALSE]
          [] OTHER ->
                [op |-> "discarded", tid |-> 0, def |-> 0, at |-> 0,
                 deeper |-> DeeperFrame(tid, sig.def), preempt |-> 0,
                 again |-> FALSE]

Snapshot == [nodes |-> nodes, thread_stacks |-> thread_stacks,
             thread_keys |-> thread_keys, completed_roots |-> completed_roots]

\* The signals delivered so far, read as a bracket sequence on one thread:
\* open = names of the pairs begun and not yet ended, pairs = pairs ended,
\* outer = pairs begun at depth 0.  wf turns FALSE, for good, when an end
\* signal does not answer the innermost open pair, when a second thread
\* speaks, or when finalize cuts an open pair short.
NoNesting == [wf |-> FALSE, tid |-> 0, open |-> << >>, pairs |-> 0, outer |-> 0]
Nesting0  == [wf |-> TRUE, tid |-> 0, open |-> << >>, pairs |-> 0, outer |-> 0]

NestSignal(tid, sig) ==
    IF ~input.wf \/ (input.tid # 0 /\ input.tid # tid) THEN NoNesting
    ELSE IF sig.kind = "start"
         THEN [input EXCEPT !.tid = tid,
                            !.open = Append(@, event_defs[sig.def].name),
                            !.outer = IF input.open = << >> THEN @ + 1 ELSE @]
         ELSE IF input.open # << >> /\ input.open[Len(input.open)] = event_defs[sig.def].name
              THEN [input EXCEPT !.tid = tid,
                                 !.open = SubSeq(@, 1, Len(@) - 1),
                                 !.pairs = @ + 1]
              ELSE NoNesting

\* An engine that has one thread only: its nodes, that thread's stack and
\* its Forest.  CheckAlone is _check_events and CloseAlone is
\* _close_dangling_events on such an engine.
Alone0 == [nodes |-> << >>, stack |-> << >>, roots |-> << >>]

CheckAlone(s, tid, timestamp, message) ==
    LET hit == Scan(1, message)
        id  == Len(s.nodes) + 1
        new_node == TraceNode(event_defs[hit.def].name, timestamp, tid)
    IN  CASE hit.kind = "start" ->
                [s EXCEPT
                   !.nodes = IF s.stack # << >>
                             THEN Append([s.nodes EXCEPT ![Top(s.stack)].children = Append(@, id)],
                                         [new_node EXCEPT !.parent = Some(Top(s.stack))])
                             ELSE Append(s.nodes, new_node),
                   !.stack = Append(s.stack, id)]
          [] hit.kind = "end" ->
                IF s.stack # << >> /\ s.nodes[Top(s.stack)].name = event_defs[hit.def].name
                THEN [nodes |-> [s.nodes EXCEPT ![Top(s.stack)] = close(@, timestamp)],
                      stack |-> Pop(s.stack),
                      roots |-> IF Pop(s.stack) = << >>
                                THEN Append(s.roots, Top(s.stack)) ELSE s.roots]
                ELSE s
          [] OTHER -> s

CloseAlone(s) ==
    LET r == Drain(s.nodes, s.roots, s.stack)
    IN  [nodes |-> r.arena, stack |-> << >>, roots |-> r.roots]

\* ------------------------------------------------- the engine, as called
\* A caller hands the engine one decoded line.  The log is time-sequential:
\* no line carries an instant earlier than that of a signal already taken.
\* A message that could start an event is delivered while there is room for
\* a node.
Observe(tid, timestamp, message) ==
    LET sig == FirstDefinition(message)
    IN  /\ pc = "api"
        /\ timestamp >= clock
        /\ message.s # {} => Len(nodes) < MaxNodes
        /\ _check_events(tid, timestamp, message)
        /\ last' = Describe(tid, timestamp, message)
        /\ pre' = IF sig.kind = "none" THEN pre ELSE Snapshot
        /\ clock' = IF sig.kind # "none" /\ last'.op \in {"start", "end"}
                    THEN timestamp ELSE clock
        /\ closer' = Closers("end")
        /\ input' = IF sig.kind = "none" THEN input ELSE NestSignal(tid, sig)
        /\ UNCHANGED << pc, file, calls >>

Finalize ==
    /\ pc = "api"
    /\ _close_dangling_events
    /\ last' = [op |-> "finalize", tid |-> 0, def |-> 0, at |-> 0,
                deeper |-> FALSE, preempt |-> 0,
                again |-> (last.op = "finalize" /\ pre.nodes # nodes)]
    /\ pre' = Snapshot
    /\ closer' = Closers("forced")
    /\ input' = IF input.open # << >> THEN NoNesting ELSE input
    /\ UNCHANGED << pc, file, calls, clock >>

\* LogProfiler.__init__, lines 80-82.
InitEngine ==
    /\ nodes = << >>
    /\ thread_stacks = << >>
    /\ thread_keys = << >>
    /\ completed_roots = << >>
    /\ clock = 0
    /\ closer = << >>
    /\ last = NoCall
    /\ pre = Snapshot
    /\ input = Nesting0

Init ==
    /\ InitEngine
    /\ pc = "api"
    /\ file = << >>
    /\ calls = << >>

\* The inputs Observe's guards admit are picked before Observe is tried.
Next ==
    \/ \E tid \in Tids,
          timestamp \in {i \in Instants : i >= clock},
          message \in {m \in Messages : m.s # {} => Len(nodes) < MaxNodes} :
          Observe(tid, timestamp, message)
    \/ Finalize

Spec == Init /\ [][Next]_vars

\* ------------------------------------------------ the program (__main__)
\* process_file, line 97: the header pattern rejects the line.
SkipLine ==
    /\ pc = "process_file"
    /\ file # << >>
    /\ ~Head(file).header
    /\ file' = Tail(file)
    /\ UNCHANGED << engine, pc, calls, clock, closer, last, pre, input >>

\* process_file, lines 102-114: the line is decoded and handed on by
\* self._check_events(pid, tid, current_time, message).  _check_events takes
\* (tid, timestamp, message): the call raises TypeError before the method's
\* body runs, nothing catches it, and the program ends there.
DeliverLine ==
    /\ pc = "process_file"
    /\ file # << >>
    /\ Head(file).header
    /\ pc' = "TypeError"
    /\ calls' = Append(calls, "_check_events")
    /\ UNCHANGED << engine, file, clock, closer, last, pre, input >>

\* process_file returns at the end of the file; __main__ goes on to line 204.
EndOfFile ==
    /\ pc = "process_file"
    /\ file = << >>
    /\ pc' = "print_text_report"
    /\ UNCHANGED << engine, file, calls, clock, closer, last, pre, input >>

\* __main__, line 204.
PrintTextReport ==
    /\ pc = "print_text_report"
    /\ pc' = "export_chrome_trace"
    /\ calls' = Append(calls, "print_text_report")
    /\ UNCHANGED << engine, file, clock, closer, last, pre, input >>

\* __main__, line 205.
ExportChromeTrace ==
    /\ pc = "export_chrome_trace"
    /\ pc' = "done"
    /\ calls' = Append(calls, "export_chrome_trace")
    /\ UNCHANGED << engine, file, clock, closer, last, pre, input >>

\* __main__, lines 201-202: the profiler is built and process_file is called.
InitMain ==
    /\ InitEngine
    /\ pc = "process_file"
    /\ file \in Files(MaxLines)
    /\ calls = << "process_file" >>

NextMain ==
    \/ SkipLine
    \/ DeliverLine
    \/ EndOfFile
    \/ PrintTextReport
    \/ ExportChromeTrace

SpecMain == InitMain /\ [][NextMain]_vars

\* =================================================================== claims
NodeIds     == DOMAIN nodes
IsOpen(i)   == nodes[i].end_time = None
SeqSet(seq) == {seq[k] : k \in DOMAIN seq}
NoDuplicates(seq) == Cardinality(SeqSet(seq)) = Len(seq)

\* The engine is as the last signal or call found it.
EngineAsBefore ==
    /\ nodes = pre.nodes
    /\ thread_stacks = pre.thread_stacks
    /\ thread_keys = pre.thread_keys
    /\ completed_roots = pre.completed_roots

\* The nodes reachable from the Forest through children.
RECURSIVE Descendants(_, _)
Descendants(ids, fuel) ==
    IF fuel = 0 THEN ids
    ELSE Descendants(ids \cup UNION {SeqSet(nodes[i].children) : i \in ids}, fuel - 1)
InForest == Descendants(SeqSet(completed_roots), Len(nodes))

\* ----------------------------------------------------------------------- C1
\* C1: a mismatched end is a no-op.  After an end signal for D on a thread
\* that has no stack, an empty stack, or a top frame whose name is not
\* D.name, the nodes, every stack and the Forest are as the signal found
\* them: nothing is popped and no deeper frame named D is unwound.
C1_MismatchedEndNoOp == last.op = "discarded" => EngineAsBefore

\* An end signal for D was discarded while a frame below the top was named D.
C1_Witness == last.op = "discarded" /\ last.deeper

\* ----------------------------------------------------------------------- C2
Count(x, seq) == Cardinality({k \in DOMAIN seq : seq[k] = x})

\* C2 (as claimed): once process_file has exhausted the log, the program has
\* run _close_dangling_events exactly once before it prints the report and
\* exports the trace.
C2_FinalizeBeforeOutput ==
    pc \in {"print_text_report", "export_chrome_trace", "done"}
        => Count("_close_dangling_events", calls) = 1

\* ----------------------------------------------------------------------- C3
Conserved(i) ==
    self_time_ms(nodes, i) + SumDurations(nodes, nodes[i].children) = duration_ms(nodes[i])

\* C3 (as claimed): after finalize, every node reachable from the Forest has
\* selfTime + sum of its children's durations = duration.
C3_SelfTimeConservation ==
    last.op = "finalize" => \A i \in InForest : Conserved(i)

\* C3 (amended): selfTime is max(0, duration - sum of the children's
\* durations): it is never negative, selfTime + sum equals the larger of
\* duration and sum, and the two are equal for every node closed by its own
\* end signal; a force-closed node is conserved only if its children's
\* durations sum to zero.
C3_SelfTimeClamped ==
    \A i \in NodeIds :
        LET sum == SumDurations(nodes, nodes[i].children)
        IN  /\ self_time_ms(nodes, i) >= 0
            /\ self_time_ms(nodes, i) + sum = Max(duration_ms(nodes[i]), sum)
            /\ closer[i] = "end" => Conserved(i)
            /\ closer[i] = "forced" => (Conserved(i) <=> sum = 0)

\* After finalize, a force-closed node in the Forest has a child that ran.
C3_Witness ==
    /\ last.op = "finalize"
    /\ \E i \in InForest :
          closer[i] = "forced" /\ SumDurations(nodes, nodes[i].children) > 0

\* ----------------------------------------------------------------------- C4
\* The last signal added a node named after definition d.
StartedNode(d) ==
    /\ Len(nodes) = Len(pre.nodes) + 1
    /\ nodes[Len(nodes)].name = event_defs[d].name
    /\ nodes[Len(nodes)].start_time = last.at

\* The last signal added no node and set the end of the frame named after
\* definition d that was on top of its thread's stack.
EndedTop(d) ==
    /\ Len(nodes) = Len(pre.nodes)
    /\ LET node == Top(pre.thread_stacks[last.tid])
       IN  /\ nodes[node].name = event_defs[d].name
           /\ pre.nodes[node].end_time = None
           /\ nodes[node].end_time = Some(last.at)

\* C4 (as claimed): the signal acted on is the start signal of the first
\* definition whose start predicate matches, and an end signal only if no
\* start predicate matches at all: a message that matches a start predicate
\* starts a node named after the first definition whose start predicate it
\* matches, whatever end predicate it also matches.
C4_StartsBeforeEnds ==
    /\ last.op = "start" => StartedNode(last.def)
    /\ last.op = "end" /\ last.preempt # 0 => StartedNode(last.preempt)
    /\ last.op = "end" /\ last.preempt = 0 => EndedTop(last.def)

\* The loop of _check_events and the rule of the first definition agree on
\* every message.
ScanIsFirstDefinition ==
    \A message \in Messages : Scan(1, message) = FirstDefinition(message)

\* C4 (amended): the signal acted on is that of the first definition, in
\* configured order, either of whose predicates matches the message: its
\* start signal if its start predicate matches, else its end signal; a
\* message no predicate matches is ignored.  An earlier definition's
\* matching end predicate pre-empts a later definition's start predicate.
C4_FirstDefinitionWins ==
    /\ ScanIsFirstDefinition
    /\ last.op = "start" => StartedNode(last.def)
    /\ last.op = "end" => EndedTop(last.def)
    /\ last.op = "discarded" => EngineAsBefore

\* A message matching an earlier definition's end predicate and a later
\* definition's start predicate closed the top frame and started nothing.
C4_Witness == last.op = "end" /\ last.preempt > last.def

\* ----------------------------------------------------------------------- C5
\* The log START A, START B, END B, END A at 0, 1, 5, 10 on thread 1, as the
\* nodes record it: names, threads and start instants come from the start
\* signals in arrival order, end instants from the end signals.
ScenarioNested ==
    /\ Len(nodes) = 2
    /\ nodes[1].name = "A" /\ nodes[1].thread_id = 1 /\ nodes[1].start_time = 0
    /\ nodes[2].name = "B" /\ nodes[2].thread_id = 1 /\ nodes[2].start_time = 1
    /\ closer = << "end", "end" >>
    /\ nodes[2].end_time = Some(5)
    /\ nodes[1].end_time = Some(10)

\* C5: a matched end sets end = instant on the top node of the thread's
\* stack and on nothing else, pops exactly that node, and appends it to the
\* Forest if and only if the stack is empty afterwards.  The nested scenario
\* yields one root A (duration 10, self time 6) with one child B (4, 4).
C5_MatchedEnd ==
    /\ last.op = "end" =>
          LET t     == last.tid
              stack == pre.thread_stacks[t]
              node  == Top(stack)
          IN  /\ pre.nodes[node].name = event_defs[last.def].name
              /\ nodes = [pre.nodes EXCEPT ![node].end_time = Some(last.at)]
              /\ thread_stacks = [pre.thread_stacks EXCEPT ![t] = Pop(stack)]
              /\ Len(thread_stacks[t]) = Len(stack) - 1
              /\ completed_roots =
                    IF thread_stacks[t] = << >>
                    THEN Append(pre.completed_roots, node)
                    ELSE pre.completed_roots
    /\ ScenarioNested =>
          /\ completed_roots = << 1 >>
          /\ nodes[1].children = << 2 >> /\ nodes[2].children = << >>
          /\ duration_ms(nodes[1]) = 10 /\ self_time_ms(nodes, 1) = 6
          /\ duration_ms(nodes[2]) = 4 /\ self_time_ms(nodes, 2) = 4

\* The nested scenario has just been completed by END A.
C5_Witness == ScenarioNested /\ last.op = "end" /\ last.tid = 1 /\ last.at = 10

\* ----------------------------------------------------------------------- C6
\* C6: a start is always accepted.  A start signal for D on thread t adds
\* one open node (D.name, the instant, t), makes it the last child of t's
\* top node if t's stack is non-empty and parentless otherwise, and pushes
\* it; the Forest, the other nodes and the other stacks do not change.
C6_StartAccepted ==
    last.op = "start" =>
        LET t     == last.tid
            stack == StackOf(pre.thread_stacks, t)
            id    == Len(pre.nodes) + 1
        IN  /\ Len(nodes) = id
            /\ nodes[id] = [name |-> event_defs[last.def].name,
                            start_time |-> last.at, end_time |-> None,
                            thread_id |-> t, children |-> << >>,
                            parent |-> IF stack = << >> THEN None
                                       ELSE Some(Top(stack))]
            /\ \A i \in DOMAIN pre.nodes :
                  nodes[i] = IF stack # << >> /\ i = Top(stack)
                             THEN [pre.nodes[i] EXCEPT !.children = Append(@, id)]
                             ELSE pre.nodes[i]
            /\ DOMAIN thread_stacks = DOMAIN pre.thread_stacks \cup {t}
            /\ thread_stacks[t] = Append(stack, id)
            /\ Len(thread_stacks[t]) = Len(stack) + 1
            /\ \A u \in DOMAIN pre.thread_stacks \ {t} :
                  thread_stacks[u] = pre.thread_stacks[u]
            /\ completed_roots = pre.completed_roots

\* A start was accepted on a thread that already had a node of that name open.
C6_Witness ==
    /\ last.op = "start"
    /\ LET stack == thread_stacks[last.tid]
       IN  \E k \in 1..(Len(stack) - 1) :
              /\ nodes[stack[k]].name = nodes[Top(stack)].name
              /\ IsOpen(stack[k])

\* ----------------------------------------------------------------------- C7
\* The threads whose stack the last call found non-empty.
WereNonEmpty == {t \in DOMAIN pre.thread_stacks : pre.thread_stacks[t] # << >>}

\* C7: finalize empties every stack, sets end = start on every node that was
\* open and changes no node that was closed, and appends to the Forest one
\* root per thread whose stack was non-empty: that stack's bottom node.
C7_Finalize ==
    last.op = "finalize" =>
        LET added == SubSeq(completed_roots, Len(pre.completed_roots) + 1,
                            Len(completed_roots))
        IN  /\ DOMAIN thread_stacks = DOMAIN pre.thread_stacks
            /\ \A t \in DOMAIN thread_stacks : thread_stacks[t] = << >>
            /\ DOMAIN nodes = DOMAIN pre.nodes
            /\ \A i \in NodeIds :
                  nodes[i] = IF pre.nodes[i].end_time = None
                             THEN [pre.nodes[i] EXCEPT
                                      !.end_time = Some(pre.nodes[i].start_time)]
                             ELSE pre.nodes[i]
            /\ Len(completed_roots) >= Len(pre.completed_roots)
            /\ SubSeq(completed_roots, 1, Len(pre.completed_roots)) = pre.completed_roots
            /\ Len(added) = Cardinality(WereNonEmpty)
            /\ SeqSet(added) = {pre.thread_stacks[t][1] : t \in WereNonEmpty}

\* Finalize drained a stack of height two or more, next to closed nodes it
\* left alone: the stack's bottom node went to the Forest, the node above
\* it did not.
C7_Witness ==
    /\ last.op = "finalize"
    /\ \E t \in WereNonEmpty :
          /\ Len(pre.thread_stacks[t]) >= 2
          /\ pre.thread_stacks[t][1] \in SeqSet(completed_roots)
          /\ pre.thread_stacks[t][2] \notin SeqSet(completed_roots)

\* ----------------------------------------------------------------------- C8
\* C8: balanced round trip.  After N properly nested start/end pairs on one
\* thread, enclosed by a single outer pair, and then finalize, there are
\* exactly N nodes, the Forest holds exactly one root, the outer pair's node,
\* every node is reachable from it, every node was closed by its own end
\* signal, and no stack holds a node.
C8_BalancedRoundTrip ==
    (last.op = "finalize" /\ input.wf /\ input.open = << >> /\ input.outer = 1) =>
        /\ Len(nodes) = input.pairs
        /\ completed_roots = << 1 >>
        /\ InForest = NodeIds
        /\ \A i \in NodeIds : closer[i] = "end" /\ nodes[i].thread_id = input.tid
        /\ \A t \in DOMAIN thread_stacks : thread_stacks[t] = << >>

\* Finalize came after an outer pair that encloses at least one inner pair.
C8_Witness ==
    /\ last.op = "finalize"
    /\ input.wf /\ input.open = << >> /\ input.outer = 1
    /\ input.pairs >= 2

\* ----------------------------------------------------------------------- C9
\* C9: idempotent finalize.  Finalize closes every node it finds open, by
\* forced closure; a finalize call made right after one that closed dangling
\* nodes, or one that finds every stack empty, leaves the nodes, the stacks and the Forest as
\* it found them; no root is in the Forest twice.
C9_IdempotentFinalize ==
    last.op = "finalize" =>
        /\ \A i \in DOMAIN pre.nodes :
              pre.nodes[i].end_time = None =>
                  nodes[i].end_time # None /\ closer[i] = "forced"
        /\ (last.again \/ WereNonEmpty = {}) => EngineAsBefore
        /\ NoDuplicates(completed_roots)

\* A second finalize call, right after one that closed dangling nodes.
C9_Witness ==
    /\ last.op = "finalize" /\ last.again
    /\ \E i \in NodeIds : closer[i] = "forced"

\* ---------------------------------------------------------------------- C10
\* C10: stack discipline.  With signals delivered at non-decreasing
\* instants, on one thread or interleaved across threads, no node ever has a
\* child whose start precedes its own start, before and after finalize.
C10_StackDiscipline ==
    \A i \in NodeIds :
        \A k \in DOMAIN nodes[i].children :
            nodes[nodes[i].children[k]].start_time >= nodes[i].start_time

\* After finalize, a node has a child that started strictly after it.
C10_Witness ==
    /\ last.op = "finalize"
    /\ \E i \in NodeIds :
          \E k \in DOMAIN nodes[i].children :
              nodes[nodes[i].children[k]].start_time > nodes[i].start_time

\* ---------------------------------------------------------------------- C11
\* What engine e (its nodes, stacks and Forest) holds for thread t: t's
\* nodes, numbered among themselves in creation order, t's stack and t's
\* roots.
TreesIn(e, t) ==
    LET Owned     == {i \in DOMAIN e.nodes : e.nodes[i].thread_id = t}
        Mine(i)   == e.nodes[i].thread_id = t
        Rank(i)   == Cardinality({j \in Owned : j <= i})
        Ranks(seq) == [k \in DOMAIN seq |-> Rank(seq[k])]
        at(k)     == CHOOSE i \in Owned : Rank(i) = k
    IN  [nodes |-> [k \in 1..Cardinality(Owned) |->
                       [e.nodes[at(k)] EXCEPT
                           !.children = Ranks(@),
                           !.parent = IF @ = None THEN None ELSE Some(Rank(@[1]))]],
         stack |-> Ranks(StackOf(e.thread_stacks, t)),
         roots |-> Ranks(SelectSeq(e.completed_roots, Mine))]

\* The last signal or call, as an engine that has thread t only takes it.
AloneStep(s, t) ==
    CASE last.op = "init" -> Alone0
      [] last.op = "start" /\ last.tid = t ->
            CheckAlone(s, t, last.at, [s |-> {last.def}, e |-> {}])
      [] last.op = "end" /\ last.tid = t ->
            CheckAlone(s, t, last.at, [s |-> {}, e |-> {last.def}])
      [] last.op = "finalize" -> CloseAlone(s)
      [] OTHER -> s

\* Thread 1 START A, thread 2 START A, then both END A, as the nodes record it.
ScenarioTwoThreads ==
    /\ Len(nodes) = 2
    /\ nodes[1].name = "A" /\ nodes[1].thread_id = 1
    /\ nodes[2].name = "A" /\ nodes[2].thread_id = 2
    /\ closer = << "end", "end" >>

\* C11: no cross-thread interference.  A signal taken on thread t leaves
\* every other thread's stack and every other thread's nodes as they were,
\* and gives its node no parent or child of another thread; whatever the
\* interleaving, every signal and call changes what the engine holds for a
\* thread exactly as an engine that has that thread only changes it, so the
\* trees of a thread are those built from its signals alone.  Two threads
\* that each start and end A yield two single-node roots.
C11_NoCrossThread ==
    /\ last.op \in {"start", "end"} =>
          /\ \A u \in DOMAIN pre.thread_stacks \ {last.tid} :
                thread_stacks[u] = pre.thread_stacks[u]
          /\ \A i \in DOMAIN pre.nodes :
                pre.nodes[i].thread_id # last.tid => nodes[i] = pre.nodes[i]
    /\ \A i \in NodeIds :
          /\ \A k \in DOMAIN nodes[i].children :
                nodes[nodes[i].children[k]].thread_id = nodes[i].thread_id
          /\ nodes[i].parent # None =>
                nodes[nodes[i].parent[1]].thread_id = nodes[i].thread_id
    /\ \A t \in Tids : TreesIn(Snapshot, t) = AloneStep(TreesIn(pre, t), t)
    /\ ScenarioTwoThreads =>
          /\ SeqSet(completed_roots) = {1, 2} /\ Len(completed_roots) = 2
          /\ \A i \in {1, 2} : nodes[i].children = << >> /\ nodes[i].parent = None

\* Thread 2 ended its A after thread 1 started and ended its own A around
\* thread 2's start.
C11_Witness ==
    /\ ScenarioTwoThreads
    /\ completed_roots = << 1, 2 >>
    /\ last.op = "end" /\ last.tid = 2
    /\ nodes[1].end_time[1] > nodes[2].start_time

\* ---------------------------------------------------------------------- C12
OnSomeStack(i) == \E t \in DOMAIN thread_stacks : i \in SeqSet(thread_stacks[t])

\* C12: node lifecycle.  A node's end is set by its end signal or by forced
\* closure and by nothing else; a node whose end was set when the last
\* signal or call arrived has the same end and the same children after it
\* and is on no stack; after finalize every node is closed and reachable
\* from the Forest.
C12_NodeLifecycle ==
    /\ \A i \in NodeIds :
          /\ IsOpen(i) <=> closer[i] = ""
          /\ closer[i] \in {"", "end", "forced"}
    /\ \A i \in DOMAIN pre.nodes :
          pre.nodes[i].end_time # None =>
              /\ nodes[i].end_time = pre.nodes[i].end_time
              /\ nodes[i].children = pre.nodes[i].children
              /\ ~OnSomeStack(i)
    /\ last.op = "finalize" =>
          \A i \in NodeIds : ~IsOpen(i) /\ i \in InForest

\* Finalize force-closed a node and found another one closed by its end
\* signal before that.
C12_Witness ==
    /\ last.op = "finalize"
    /\ \E i, j \in NodeIds :
          /\ closer[i] = "end" /\ pre.nodes[i].end_time # None
          /\ closer[j] = "forced" /\ pre.nodes[j].end_time = None
          /\ nodes[j].start_time > nodes[i].end_time[1]

\* ---------------------------------------------------------------------- C13
IsPrefix(a, b) == Len(a) <= Len(b) /\ SubSeq(b, 1, Len(a)) = a

\* C13: the Forest is append-only.  The Forest the last signal or call found
\* is a prefix of the Forest it left, and every node it appended was on its
\* thread's stack before, is on no stack now, and left that stack empty.
C13_ForestAppendOnly ==
    /\ IsPrefix(pre.completed_roots, completed_roots)
    /\ \A k \in (Len(pre.completed_roots) + 1)..Len(completed_roots) :
          LET r == completed_roots[k]
              t == nodes[r].thread_id
          IN  /\ t \in DOMAIN pre.thread_stacks
              /\ r \in SeqSet(pre.thread_stacks[t])
              /\ thread_stacks[t] = << >>
              /\ ~OnSomeStack(r)

\* A root was appended to a Forest that already held one.
C13_Witness ==
    /\ pre.completed_roots # << >>
    /\ Len(completed_roots) > Len(pre.completed_roots)
    /\ last.op \in {"end", "finalize"}

\* ---------------------------------------------------------------------- C14
\* The nodes below node i.
Below(i) == Descendants(SeqSet(nodes[i].children), Len(nodes))

\* The positions of node i's begin (or end) records in the exported trace.
Positions(order, ph, i) == {k \in DOMAIN order : order[k] = [ph |-> ph, node |-> i]}

\* C14: trace nesting.  The exported trace holds exactly one begin and one
\* end record for every node of the Forest and nothing else, a node's begin
\* comes before its end, and the records of every node below it lie
\* strictly between the two.
C14_TraceNesting ==
    LET order == EmitRoots(nodes, completed_roots)
        trace == export_chrome_trace
    IN  /\ Len(trace) = 2 * Cardinality(InForest)
        /\ DOMAIN trace = DOMAIN order
        /\ \A k \in DOMAIN trace :
              /\ order[k].node \in InForest
              /\ trace[k].ph = order[k].ph
              /\ trace[k].name = nodes[order[k].node].name
              /\ trace[k].tid = nodes[order[k].node].thread_id
        /\ \A i \in InForest :
              LET begin == Positions(order, "B", i)
                  end   == Positions(order, "E", i)
              IN  /\ Cardinality(begin) = 1
                  /\ Cardinality(end) = 1
                  /\ \A b \in begin, e \in end :
                        /\ b < e
                        /\ \A j \in Below(i) :
                              /\ \A k \in Positions(order, "B", j) : b < k
                              /\ \A k \in Positions(order, "E", j) : k < e

\* The Forest holds a root that has a child.
C14_Witness ==
    /\ \E i \in SeqSet(completed_roots) : nodes[i].children # << >>
    /\ Len(export_chrome_trace) >= 4

\* ---------------------------------------------------------------------- C16
\* C16: export tolerates open nodes.  The records of the tree of any node,
\* open nodes included, are produced in full: two per node of the tree; the
\* end record of a node whose end is unset carries its start plus a fixed
\* positive offset, the end record of a closed node carries its end.
C16_ExportOpenNodes ==
    /\ OpenEndOffset > 0
    /\ \A i \in NodeIds :
          LET order == Emit(nodes, i)
              trace == to_chrome_trace_events(nodes, i, 1)
          IN  /\ Len(trace) = 2 * (1 + Cardinality(Below(i)))
              /\ \A k \in DOMAIN trace :
                    LET n == nodes[order[k].node]
                    IN  trace[k].ph = "E" =>
                           trace[k].ts = IF n.end_time = None
                                         THEN n.start_time * 1000 + OpenEndOffset
                                         ELSE n.end_time[1] * 1000

\* A node whose end is unset has a closed child that ran for some time.
C16_Witness ==
    \E i \in NodeIds :
        /\ IsOpen(i)
        /\ \E k \in DOMAIN nodes[i].children :
              /\ ~IsOpen(nodes[i].children[k])
              /\ duration_ms(nodes[nodes[i].children[k]]) > 0
        /\ Len(to_chrome_trace_events(nodes, i, 1)) = 4

\* ---------------------------------------------------------------------- C15
\* The configured entry a report line's node was made from.
ConfigOf(name) == config_events[FirstOf({d \in DefIds : config_events[d].name = name})]

\* C15 (as claimed): a line of the text report is marked warn exactly when
\* its node's definition has a configured threshold and the node's duration
\* is strictly greater than it; a node whose definition has no configured
\* threshold is never marked warn.
C15_WarnMarker ==
    LET report == print_text_report
    IN  \A k \in DOMAIN report :
           LET c == ConfigOf(report[k].name)
           IN  report[k].status_icon = "warn" <=>
                  /\ c.threshold_ms # None
                  /\ report[k].total > c.threshold_ms[1]

\* ---------------------------------------------------------------------- C17
\* C17 (as claimed): process_file hands every line that matches the header
\* pattern to the engine without raising, and every node carries the thread
\* identifier of the line it was made from; a line that does not match is
\* skipped and leaves the engine as it was.
C17_LineDelivery ==
    /\ pc # "TypeError"
    /\ \A i \in NodeIds : nodes[i].thread_id \in Tids
    /\ ~(\E k \in DOMAIN calls : calls[k] = "_check_events") => engine = << << >>, << >>, << >>, << >> >>

\* ---------------------------------------------------------------------- C18
\* C18: open/closed partition.  A node is on some stack if and only if its
\* end is unset; every node of the Forest, and every node that has left its
\* stack, has its end set; a node is on at most one stack, at most once.
C18_OpenClosedPartition ==
    /\ \A i \in NodeIds : OnSomeStack(i) <=> IsOpen(i)
    /\ \A r \in SeqSet(completed_roots) : ~IsOpen(r) /\ ~OnSomeStack(r)
    /\ \A t \in DOMAIN thread_stacks :
          /\ NoDuplicates(thread_stacks[t])
          /\ \A u \in DOMAIN thread_stacks \ {t} :
                SeqSet(thread_stacks[t]) \cap SeqSet(thread_stacks[u]) = {}

\* An open node is on a stack while a node popped from above it is closed
\* and is not in the Forest.
C18_Witness ==
    \E i, j \in NodeIds :
        /\ IsOpen(i) /\ OnSomeStack(i)
        /\ nodes[j].parent = Some(i)
        /\ ~IsOpen(j) /\ ~OnSomeStack(j) /\ j \notin SeqSet(completed_roots)

\* ---------------------------------------------------------------------- C19
Last(seq) == seq[Len(seq)]

\* C19: a stack is the active parent chain.  The bottom node of every stack
\* has no parent; every node above it has the node directly below it for
\* parent and is the last of that node's children; the nodes on a thread's
\* stack and all nodes below them carry that thread's identifier.
C19_StackIsParentChain ==
    \A t \in DOMAIN thread_stacks :
        LET stack == thread_stacks[t]
        IN  /\ stack # << >> => nodes[stack[1]].parent = None
            /\ \A k \in 2..Len(stack) :
                  /\ nodes[stack[k]].parent = Some(stack[k - 1])
                  /\ nodes[stack[k - 1]].children # << >>
                  /\ Last(nodes[stack[k - 1]].children) = stack[k]
            /\ \A i \in Descendants(SeqSet(stack), Len(nodes)) :
                  nodes[i].thread_id = t

\* A stack holds two nodes, one above the other.
C19_Witness ==
    \E t \in DOMAIN thread_stacks :
        /\ Len(thread_stacks[t]) >= 2
        /\ nodes[thread_stacks[t][2]].start_time > nodes[thread_stacks[t][1]].start_time

\* ---------------------------------------------------------------------- C20
\* The nodes that have node i among their children.
ParentsOf(i) == {p \in NodeIds : i \in SeqSet(nodes[p].children)}

\* C20: the Forest is a forest.  No node is in the Forest twice, a node of
\* the Forest has no parent, no node is a child of more than one node or
\* twice a child of one, and no node of the Forest is a child of any node;
\* repeated finalize calls included.
C20_ForestIsForest ==
    /\ NoDuplicates(completed_roots)
    /\ \A r \in SeqSet(completed_roots) :
          nodes[r].parent = None /\ ParentsOf(r) = {}
    /\ \A i \in NodeIds :
          /\ NoDuplicates(nodes[i].children)
          /\ Cardinality(ParentsOf(i)) <= 1
          /\ \A p \in ParentsOf(i) : nodes[i].parent = Some(p)

\* A second finalize call in a row left a Forest whose root has a child.
C20_Witness ==
    /\ last.op = "finalize" /\ last.again
    /\ \E r \in SeqSet(completed_roots) : nodes[r].children # << >>

====
